---- MODULE Spec2Model ----
\* Checkpoint / reload I/O of SPHinXsys (src/shared/io_system/io_base.cpp):
\* BaseIO, RestartIO and ReloadParticleIO over a filesystem, a global
\* physical time and a set of named bodies.
EXTENDS Integers, Sequences, FiniteSets, TLC

\* ------------------------------------------------------------------ bounds
\* number of SPHBody objects of the system
NumBodies == 3

\* field width of padValueWithZeros (io_base.h, not under src/)
PadWidth == 3

Bodies == 1..NumBodies
\* the iteration steps handed to the writers and readers
Steps == {0, 1}
\* the opaque particle states a body takes in the model
BodyStates == {0, 1}

\* SPHBody::getName(): bodies are named A, B, A, B, ... so that the system
\* holds bodies with different names and bodies with the same name
getName(b) == IF b % 2 = 1 THEN "A" ELSE "B"

\* ------------------------------------------------------- physical time
\* A Real time is kept exactly as seconds, microseconds (0..999999) and
\* tenths of a nanosecond (0..9999).
Time(s, u, x) == [sec |-> s, us |-> u, sub |-> x]
TimeZero == Time(0, 0, 0)
\* the values the simulation clock takes in the model
TimeValues == {TimeZero, Time(0, 2, 4567)}
\* what an uninitialized Real may hold besides the above
GarbageTime == Time(7, 7, 7)
\* "no value returned"
NoTime == Time(-1, 0, 0)

TimeLess(a, b) ==
    \/ a.sec < b.sec
    \/ a.sec = b.sec /\ a.us < b.us
    \/ a.sec = b.sec /\ a.us = b.us /\ a.sub < b.sub

\* out << std::fixed << std::setprecision(9) << t : the text "sec.fffffffff",
\* kept as <<sec, nanoseconds>>, rounded to the nearest nanosecond.
FixedPrecision9(t) ==
    LET nano == t.us * 1000 + ((t.sub + 5) \div 10)
    IN  IF nano >= 1000000000 THEN <<t.sec + 1, nano - 1000000000>>
        ELSE <<t.sec, nano>>

\* in >> restart_time on such a text
ParseReal(text) == Time(text[1], text[2] \div 1000, (text[2] % 1000) * 10)

\* ------------------------------------------------------------- tokens
DigitChar(d) ==
    CASE d = 0 -> "0" [] d = 1 -> "1" [] d = 2 -> "2" [] d = 3 -> "3"
      [] d = 4 -> "4" [] d = 5 -> "5" [] d = 6 -> "6" [] d = 7 -> "7"
      [] d = 8 -> "8" [] d = 9 -> "9"

RECURSIVE Decimal(_)
Decimal(n) ==
    IF n < 10 THEN <<DigitChar(n)>>
    ELSE Decimal(n \div 10) \o <<DigitChar(n % 10)>>

\* operator<< of an integer: the digits after the sign
SignedDecimal(n) ==
    IF n >= 0 THEN Decimal(n)
    ELSE LET d == (10 - (n % 10)) % 10
             rest == (-(n + d)) \div 10
         IN  <<"-">> \o (IF rest = 0 THEN <<>> ELSE Decimal(rest)) \o <<DigitChar(d)>>

\* std::setw(W) << std::setfill('0') << value
padValueWithZeros(value) ==
    LET s == SignedDecimal(value)
    IN  IF Len(s) >= PadWidth THEN s
        ELSE [i \in 1..(PadWidth - Len(s)) |-> "0"] \o s

\* --------------------------------------------------------- filesystem
\* A path is the sequence of the strings concatenated to build it; the
\* filesystem maps each existing path to its content, a sequence of lines.
restart_folder_ == <<"./restart">>
reload_folder_ == <<"./reload">>

exists(fs, p) == p \in DOMAIN fs
\* faulty variant: a remove that leaves the file in place
remove_keep(fs, p) == fs

remove(fs, p) == [q \in DOMAIN fs \ {p} |-> fs[q]]
\* std::ofstream(path, std::ios::app): creates the file when missing and
\* keeps what it holds otherwise
OpenAppend(fs, p) == IF exists(fs, p) THEN fs ELSE (p :> <<>>) @@ fs
\* what << and close() add at the end of the opened file
AppendLine(fs, p, line) == [fs EXCEPT ![p] = Append(@, line)]
\* a body's serializer writes the whole document anew
WriteXml(fs, p, s) == (p :> << <<s>> >>) @@ fs
ReadXml(fs, p) == fs[p][1][1]

\* -------------------------------------------------------------- state
VARIABLES
    physical_time,   \* GlobalStaticVariables::physical_time_
    bodyState,       \* the particle state of each body
    files,           \* the filesystem
    origin,          \* per file: the age of the writeToFile call of its token
                     \* that wrote it (0: the most recent call)
    written,         \* per step: how the most recent writeToFile ended
    restart_io,      \* the RestartIO instance
    reload_args,     \* the constructor arguments of the ReloadParticleIO instances
    reload_io,       \* the ReloadParticleIO instances
    pc,              \* "run" or "dead" (after exit(1) or a crash)
    last,            \* the last operation and its outcome
    state_recording, \* the BodyStatesRecording instance
    recorded         \* the recording calls made so far, in order

vars == <<physical_time, bodyState, files, origin, written, restart_io, reload_args, reload_io, pc, last,
          state_recording, recorded>>

\* ---------------------------------------------------------- RestartIO
\* the body vectors a writer is constructed with: the first n bodies of the
\* system, n >= 1 (bodies[0] is dereferenced by the constructor)
BodyLists == {[i \in 1..n |-> i] : n \in 1..NumBodies}

\* RestartIO::RestartIO(SPHBodyVector bodies)
RestartIO(bodies) ==
    [bodies_ |-> bodies,
     overall_file_path_ |-> restart_folder_ \o <<"/", "Restart_time_">>,
     file_names_ |-> [i \in DOMAIN bodies |->
                        restart_folder_ \o <<"/", getName(bodies[i]), "_rst_">>]]

\* faulty variant: the overall file named with the bare step
OverallPath_unpadded(io, step) == io.overall_file_path_ \o Decimal(step) \o <<".dat">>

OverallPath(io, step) == io.overall_file_path_ \o padValueWithZeros(step) \o <<".dat">>

\* faulty variant: the body file named without the step of the call
BodyPath_noStep(io, i, step) == io.file_names_[i] \o padValueWithZeros(0) \o <<".xml">>

BodyPath(io, i, step) == io.file_names_[i] \o padValueWithZeros(step) \o <<".xml">>

\* faulty variant: writeToFile without the exists/remove of the old file
RemoveExisting_skip(fs, p) == fs

\* if (fs::exists(p)) fs::remove(p);
RemoveExisting(fs, p) == IF exists(fs, p) THEN remove(fs, p) ELSE fs

\* faulty variant: the time written with 6 fractional digits only
TimeLine_precision6(t) ==
    LET nano == FixedPrecision9(t)
    IN  <<nano[1], ((nano[2] + 500) \div 1000) * 1000>>

\* the text written to the overall file
TimeLine(t) == FixedPrecision9(t)

\* One primitive file operation of a write, on the filesystem and on the
\* origin marks (0 marks a file touched by the running call).
Op(kind, path, data) == [kind |-> kind, path |-> path, data |-> data]

ApplyOp(st, op) ==
    LET fs2 == CASE op.kind = "remove" -> RemoveExisting(st.fs, op.path)
                 [] op.kind = "open"   -> OpenAppend(st.fs, op.path)
                 [] op.kind = "line"   -> AppendLine(st.fs, op.path, op.data)
                 [] op.kind = "xml"    -> WriteXml(st.fs, op.path, op.data[1])
    IN  [fs  |-> fs2,
         org |-> [p \in DOMAIN fs2 |->
                    IF p = op.path /\ op.kind # "remove" THEN 0
                    ELSE IF p \in DOMAIN st.org THEN st.org[p] ELSE 0]]

RECURSIVE ApplyOps(_, _, _)
ApplyOps(st, ops, c) ==
    IF c = 0 THEN st ELSE ApplyOp(ApplyOps(st, ops, c - 1), ops[c])

\* faulty variant: the loop of writeToFile stopping one body short
RECURSIVE BodyWriteOps_skipLast(_, _, _, _)
BodyWriteOps_skipLast(io, step, bs, i) ==
    IF i >= Len(io.bodies_) THEN <<>>
    ELSE << Op("remove", BodyPath(io, i, step), <<>>),
            Op("xml", BodyPath(io, i, step), <<bs[io.bodies_[i]]>>) >>
         \o BodyWriteOps_skipLast(io, step, bs, i + 1)

\* the file operations of the loop of RestartIO::writeToFile, in order
RECURSIVE BodyWriteOps(_, _, _, _)
BodyWriteOps(io, step, bs, i) ==
    IF i > Len(io.bodies_) THEN <<>>
    ELSE << Op("remove", BodyPath(io, i, step), <<>>),
            Op("xml", BodyPath(io, i, step), <<bs[io.bodies_[i]]>>) >>
         \o BodyWriteOps(io, step, bs, i + 1)

\* faulty variant: the body files written before the overall file
RestartWriteOps_bodiesFirst(io, step, t, bs) ==
    BodyWriteOps(io, step, bs, 1)
    \o << Op("remove", OverallPath(io, step), <<>>),
          Op("open", OverallPath(io, step), <<>>),
          Op("line", OverallPath(io, step), TimeLine(t)) >>

\* the file operations of RestartIO::writeToFile(iteration_step), in order
RestartWriteOps(io, step, t, bs) ==
    << Op("remove", OverallPath(io, step), <<>>),
       Op("open", OverallPath(io, step), <<>>),
       Op("line", OverallPath(io, step), TimeLine(t)) >>
    \o BodyWriteOps(io, step, bs, 1)

\* the restart files of one token
TokenPaths(io, step) ==
    {OverallPath(io, step)} \cup {BodyPath(io, i, step) : i \in DOMAIN io.bodies_}

\* A new call on a token makes the marks of the token's files one call older.
Age(org, paths) ==
    [p \in DOMAIN org |-> IF p \in paths THEN org[p] + 1 ELSE org[p]]

\* The marks of a token's files left by older calls renumbered 1, 2, ...
Renumber(org, paths) ==
    [p \in DOMAIN org |->
        IF p \in paths /\ org[p] > 0
        THEN 1 + Cardinality({org[q] : q \in {r \in paths \cap DOMAIN org :
                                                 org[r] > 0 /\ org[r] < org[p]}})
        ELSE org[p]]

\* faulty variant: the write starting from an emptied filesystem
WriteEffect_wipe(fs, org, ops, c, paths) ==
    LET st == ApplyOps([fs |-> << >>, org |-> << >>], ops, c)
    IN  [fs |-> st.fs, org |-> st.org]

\* files and origin marks after the first c operations of ops on a token
WriteEffect(fs, org, ops, c, paths) ==
    LET st == ApplyOps([fs |-> fs, org |-> Age(org, paths)], ops, c)
    IN  [fs |-> st.fs, org |-> Renumber(st.org, paths)]

\* faulty variant: readRestartTime without the check that the file exists: the
\* stream fails to open and the uninitialized value is returned
readRestartTimeResult_unchecked(fs, io, step) ==
    LET p == OverallPath(io, step)
    IN  IF exists(fs, p) /\ fs[p] # <<>>
        THEN {[out |-> "ok", ret |-> ParseReal(fs[p][1])]}
        ELSE {[out |-> "ok", ret |-> t] : t \in TimeValues \cup {GarbageTime}}

\* RestartIO::readRestartTime: the possible outcomes
readRestartTimeResult(fs, io, step) ==
    LET p == OverallPath(io, step)
    IN  IF ~exists(fs, p) THEN {[out |-> "fatal", ret |-> NoTime]}
        ELSE IF fs[p] = <<>>
             THEN {[out |-> "ok", ret |-> t] : t \in TimeValues \cup {GarbageTime}}
             ELSE {[out |-> "ok", ret |-> ParseReal(fs[p][1])]}

\* faulty variant: readFromFile passing over a body whose file is missing
RECURSIVE readFromFileResult_skipMissing(_, _, _, _, _)
readFromFileResult_skipMissing(fs, io, step, bs, i) ==
    IF i > Len(io.bodies_) THEN [out |-> "ok", n |-> i - 1, state |-> bs]
    ELSE readFromFileResult_skipMissing(fs, io, step,
             IF exists(fs, BodyPath(io, i, step))
             THEN [bs EXCEPT ![io.bodies_[i]] = ReadXml(fs, BodyPath(io, i, step))]
             ELSE bs,
             i + 1)

\* RestartIO::readFromFile: bodies restored in list order up to the first
\* missing file
RECURSIVE readFromFileResult(_, _, _, _, _)
readFromFileResult(fs, io, step, bs, i) ==
    IF i > Len(io.bodies_) THEN [out |-> "ok", n |-> i - 1, state |-> bs]
    ELSE IF ~exists(fs, BodyPath(io, i, step))
         THEN [out |-> "fatal", n |-> i - 1, state |-> bs]
         ELSE readFromFileResult(fs, io, step,
                  [bs EXCEPT ![io.bodies_[i]] = ReadXml(fs, BodyPath(io, i, step))],
                  i + 1)

\* ---------------------------------------------------- ReloadParticleIO
\* faulty variant: reload files named as the restart files of step 1
ReloadParticleIOVector_restartNames(bodies) ==
    [bodies_ |-> bodies,
     file_names_ |-> [i \in DOMAIN bodies |->
                        restart_folder_ \o <<"/", getName(bodies[i]), "_rst_">>
                            \o padValueWithZeros(1) \o <<".xml">>]]

\* ReloadParticleIO::ReloadParticleIO(SPHBodyVector bodies)
ReloadParticleIOVector(bodies) ==
    [bodies_ |-> bodies,
     file_names_ |-> [i \in DOMAIN bodies |->
                        reload_folder_ \o <<"/", getName(bodies[i]), "_rld.xml">>]]

\* faulty variant: the given name ignored in favour of the body's own name
ReloadParticleIONamed_ownName(sph_body, given_body_name) ==
    [bodies_ |-> <<sph_body>>,
     file_names_ |-> <<reload_folder_ \o <<"/", getName(sph_body), "_rld.xml">>>>]

\* ReloadParticleIO::ReloadParticleIO(SPHBody &sph_body, const std::string &given_body_name)
ReloadParticleIONamed(sph_body, given_body_name) ==
    [bodies_ |-> <<sph_body>>,
     file_names_ |-> <<reload_folder_ \o <<"/", given_body_name, "_rld.xml">>>>]

\* ReloadParticleIO::ReloadParticleIO(SPHBody &sph_body)
ReloadParticleIOBody(sph_body) == ReloadParticleIONamed(sph_body, getName(sph_body))

\* faulty variant: a reload path indexed by the step
ReloadPath_indexed(io, i, step) == io.file_names_[i] \o padValueWithZeros(step)

\* the path ReloadParticleIO uses for its i-th body, whatever the step
ReloadPath(io, i, step) == io.file_names_[i]

\* the file operations of ReloadParticleIO::writeToFile(iteration_step), in order
RECURSIVE ReloadWriteOps(_, _, _, _)
ReloadWriteOps(io, step, bs, i) ==
    IF i > Len(io.bodies_) THEN <<>>
    ELSE << Op("remove", ReloadPath(io, i, step), <<>>),
            Op("xml", ReloadPath(io, i, step), <<bs[io.bodies_[i]]>>) >>
         \o ReloadWriteOps(io, step, bs, i + 1)

\* faulty variant: a reload that touches no body when a file is missing
reloadFromFileResult_untouched(fs, io, step, bs, i) ==
    LET rest == i..Len(io.bodies_)
        missing == {j \in rest : ~exists(fs, ReloadPath(io, j, step))}
    IN  IF missing # {}
        THEN [out |-> "fatal",
              n |-> (CHOOSE j \in missing : \A m \in missing : j <= m) - 1,
              state |-> bs]
        ELSE [out |-> "ok", n |-> Len(io.bodies_),
              state |-> [b \in DOMAIN bs |->
                           IF \E j \in rest : io.bodies_[j] = b
                           THEN ReadXml(fs, ReloadPath(io,
                                    CHOOSE j \in rest : io.bodies_[j] = b, step))
                           ELSE bs[b]]]

\* ReloadParticleIO::readFromFile: bodies reloaded in list order up to the
\* first missing file
RECURSIVE reloadFromFileResult(_, _, _, _, _)
reloadFromFileResult(fs, io, step, bs, i) ==
    IF i > Len(io.bodies_) THEN [out |-> "ok", n |-> i - 1, state |-> bs]
    ELSE IF ~exists(fs, ReloadPath(io, i, step))
         THEN [out |-> "fatal", n |-> i - 1, state |-> bs]
         ELSE reloadFromFileResult(fs, io, step,
                  [bs EXCEPT ![io.bodies_[i]] = ReadXml(fs, ReloadPath(io, i, step))],
                  i + 1)

\* The constructor calls the model makes. An instance is built from its
\* arguments: the vector form, the (body, given name) form or the body form.
GivenNames == {"A", "X"}
VectorArgs == {[form |-> "vector", bodies |-> b, name |-> ""] : b \in BodyLists}
NamedArgs == {[form |-> "named", bodies |-> <<b>>, name |-> g] : b \in Bodies, g \in GivenNames}
BodyArgs == {[form |-> "body", bodies |-> <<b>>, name |-> ""] : b \in Bodies}

Construct(a) ==
    CASE a.form = "vector" -> ReloadParticleIOVector(a.bodies)
      [] a.form = "named"  -> ReloadParticleIONamed(a.bodies[1], a.name)
      [] a.form = "body"   -> ReloadParticleIOBody(a.bodies[1])

\* the two ReloadParticleIO instances of the model
Reloaders == 1..2

\* --------------------------------------------------------------- BaseIO
\* int(x) of a Real x = index + fraction, index >= 0: the index when an int
\* holds it, and otherwise any int (the conversion is undefined)
IntMax == 2147483647
FitsInt(t) == t.sec < 2147 \/ (t.sec = 2147 /\ t.us <= 483647)
IntOf(t) ==
    IF FitsInt(t) THEN {t.sec * 1000000 + t.us}
    ELSE {-IntMax - 1, 0, IntMax}

\* BaseIO::convertPhysicalTimeToString(Real convertPhysicalTimeToStream):
\* the possible results, given the global clock
convertPhysicalTimeToString(convertPhysicalTimeToStream, clock) ==
    {padValueWithZeros(i_time) : i_time \in IntOf(clock)}

\* the times handed to convertPhysicalTimeToString and taken by the clock
\* where tokens are derived from the time
TimeSamples ==
    TimeValues \cup
    {Time(0, 2, 0), Time(0, 3, 0), Time(0, 999999, 9999), Time(1, 0, 0),
     Time(12, 345678, 0), Time(2147, 483647, 9999), Time(2147, 483648, 0),
     Time(3000, 0, 0)}

\* ------------------------------------------------- BodyStatesRecording
output_folder_ == <<"./output">>

\* BodyStatesRecording::BodyStatesRecording(SPHBodyVector bodies)
BodyStatesRecording(bodies) == [bodies_ |-> bodies]

\* BodyStatesRecording::BodyStatesRecording(SPHBody &body)
BodyStatesRecordingBody(body) == BodyStatesRecording(<<body>>)

\* the token of writeToFile(): the conversion of the global clock
TimeToken(clock) == convertPhysicalTimeToString(clock, clock)

\* faulty variant: every step recorded under the token of step 0
StepToken_zero(iteration_step) == padValueWithZeros(0)

\* the token of writeToFile(iteration_step)
StepToken(iteration_step) == padValueWithZeros(iteration_step)

\* the file a recording writes for its i-th body under a token
RecordPath(io, i, token) ==
    output_folder_ \o <<"/", getName(io.bodies_[i]), "_">> \o token \o <<".vtp">>

\* writeWithFileName(token): every body's recordable state serialized to the
\* file of its name and the token, from the i-th body on
RECURSIVE writeWithFileName(_, _, _, _, _)
writeWithFileName(fs, io, token, bs, i) ==
    IF i > Len(io.bodies_) THEN fs
    ELSE writeWithFileName(WriteXml(fs, RecordPath(io, i, token), bs[io.bodies_[i]]),
                           io, token, bs, i + 1)

\* the number of recording calls the model follows
MaxLog == 3

\* the steps handed to the recording
RecordingSteps == {0, 2, 100}

\* ------------------------------------------------------------ actions
\* the last operation: which, on which object (0: the RestartIO, j: the j-th
\* ReloadParticleIO), its step argument, how it ended ("ok", "fatal" exit(1),
\* "crash"), what it returned, how many bodies it went through, the overall
\* file's content before a write, whether it repeats the write before it,
\* the time argument and the token of a conversion
NoOp ==
    [op |-> "none", io |-> 0, step |-> 0, out |-> "ok", ret |-> NoTime, n |-> 0,
     pre |-> <<>>, twice |-> FALSE, arg |-> NoTime, tok |-> <<>>]

Called(op, io, step, out) ==
    [NoOp EXCEPT !.op = op, !.io = io, !.step = step, !.out = out]

\* the bodies an I/O object is bound to
BoundBodies(io) == {io.bodies_[i] : i \in DOMAIN io.bodies_}

\* the bodies as the driver generates them at start-up
InitialState == [b \in Bodies |-> 0]

\* the state common to every start of the program
Start ==
    /\ physical_time = TimeZero
    /\ bodyState = InitialState
    /\ files = << >>
    /\ origin = << >>
    /\ written = [k \in Steps |-> "none"]
    /\ pc = "run"
    /\ last = NoOp
    /\ recorded = << >>

Init ==
    /\ Start
    /\ state_recording = BodyStatesRecordingBody(1)
    /\ restart_io \in {RestartIO(b) : b \in BodyLists}
    /\ reload_args = [j \in Reloaders |-> [form |-> "body", bodies |-> <<1>>, name |-> ""]]
    /\ reload_io = [j \in Reloaders |-> Construct(reload_args[j])]

\* the simulation changes one of the bodies under study or advances the
\* clock between I/O calls
SimulationStep(bodies, times) ==
    /\ pc = "run"
    /\ \/ \E b \in bodies, s \in BodyStates :
            /\ s # bodyState[b]
            /\ bodyState' = [bodyState EXCEPT ![b] = s]
            /\ UNCHANGED physical_time
       \/ \E t \in times :
            /\ TimeLess(physical_time, t)
            /\ physical_time' = t
            /\ UNCHANGED bodyState
    /\ last' = NoOp
    /\ UNCHANGED <<files, origin, written, restart_io, reload_args, reload_io, pc,
                   state_recording, recorded>>

\* RestartIO::writeToFile(iteration_step), run to completion
RestartIO_writeToFile(step) ==
    /\ pc = "run"
    /\ LET ops == RestartWriteOps(restart_io, step, physical_time, bodyState)
           eff == WriteEffect(files, origin, ops, Len(ops), TokenPaths(restart_io, step))
           overall == OverallPath(restart_io, step)
       IN  /\ files' = eff.fs
           /\ origin' = eff.org
           /\ last' = [Called("writeToFile", 0, step, "ok") EXCEPT
                        !.n = Len(restart_io.bodies_),
                        !.pre = IF exists(files, overall) THEN files[overall] ELSE <<>>,
                        !.twice = /\ last.op = "writeToFile" /\ last.io = 0
                                  /\ last.step = step /\ last.out = "ok"]
    /\ written' = [written EXCEPT ![step] = "done"]
    /\ UNCHANGED <<physical_time, bodyState, restart_io, reload_args, reload_io, pc,
                   state_recording, recorded>>

\* RestartIO::writeToFile(iteration_step) cut short by a crash of the
\* process after c of its file operations
RestartIO_writeToFile_crash(step) ==
    /\ pc = "run"
    /\ LET ops == RestartWriteOps(restart_io, step, physical_time, bodyState)
       IN  \E c \in 0..(Len(ops) - 1) :
             LET eff == WriteEffect(files, origin, ops, c, TokenPaths(restart_io, step))
             IN  /\ files' = eff.fs
                 /\ origin' = eff.org
                 /\ last' = [Called("writeToFile", 0, step, "crash") EXCEPT !.n = c]
    /\ written' = [written EXCEPT ![step] = "cut"]
    /\ pc' = "dead"
    /\ UNCHANGED <<physical_time, bodyState, restart_io, reload_args, reload_io,
                   state_recording, recorded>>

\* RestartIO::readRestartTime(restart_step)
RestartIO_readRestartTime(step) ==
    /\ pc = "run"
    /\ \E r \in readRestartTimeResult(files, restart_io, step) :
         /\ last' = [Called("readRestartTime", 0, step, r.out) EXCEPT !.ret = r.ret]
         /\ pc' = IF r.out = "fatal" THEN "dead" ELSE "run"
    /\ UNCHANGED <<physical_time, bodyState, files, origin, written,
                   restart_io, reload_args, reload_io,
                   state_recording, recorded>>

\* RestartIO::readFromFile(restart_step)
RestartIO_readFromFile(step) ==
    /\ pc = "run"
    /\ LET r == readFromFileResult(files, restart_io, step, bodyState, 1)
       IN  /\ bodyState' = r.state
           /\ last' = [Called("readFromFile", 0, step, r.out) EXCEPT !.n = r.n]
           /\ pc' = IF r.out = "fatal" THEN "dead" ELSE "run"
    /\ UNCHANGED <<physical_time, files, origin, written, restart_io, reload_args, reload_io,
                   state_recording, recorded>>

\* ReloadParticleIO::writeToFile(iteration_step) of the j-th instance
ReloadParticleIO_writeToFile(j, step) ==
    /\ pc = "run"
    /\ LET ops == ReloadWriteOps(reload_io[j], step, bodyState, 1)
           st == ApplyOps([fs |-> files, org |-> origin], ops, Len(ops))
       IN  /\ files' = st.fs
           /\ origin' = st.org
    /\ last' = [Called("reloadWrite", j, step, "ok") EXCEPT !.n = Len(reload_io[j].bodies_)]
    /\ UNCHANGED <<physical_time, bodyState, written, restart_io, reload_args, reload_io, pc,
                   state_recording, recorded>>

\* ReloadParticleIO::readFromFile(restart_step) of the j-th instance
ReloadParticleIO_readFromFile(j, step) ==
    /\ pc = "run"
    /\ LET r == reloadFromFileResult(files, reload_io[j], step, bodyState, 1)
       IN  /\ bodyState' = r.state
           /\ last' = [Called("reloadRead", j, step, r.out) EXCEPT !.n = r.n]
           /\ pc' = IF r.out = "fatal" THEN "dead" ELSE "run"
    /\ UNCHANGED <<physical_time, files, origin, written, restart_io, reload_args, reload_io,
                   state_recording, recorded>>

\* BaseIO::convertPhysicalTimeToString(t), called by a writer
BaseIO_convertPhysicalTimeToString(t) ==
    /\ pc = "run"
    /\ \E tok \in convertPhysicalTimeToString(t, physical_time) :
         last' = [Called("convert", 0, 0, "ok") EXCEPT !.arg = t, !.tok = tok]
    /\ UNCHANGED <<physical_time, bodyState, files, origin, written,
                   restart_io, reload_args, reload_io, pc,
                   state_recording, recorded>>

\* what a recording call does once its token is computed; the entry added
\* to the calls made keeps the form of the call, the index it records (whole
\* seconds and microseconds), the number the token spells and the token
Record(kind, index, val, token) ==
    /\ pc = "run"
    /\ Len(recorded) < MaxLog
    /\ files' = writeWithFileName(files, state_recording, token, bodyState, 1)
    /\ origin' = [p \in DOMAIN files' |-> IF p \in DOMAIN origin THEN origin[p] ELSE 0]
    /\ recorded' = Append(recorded, [kind |-> kind, index |-> index, val |-> val,
                                     tok |-> token])
    /\ last' = [Called(kind, 0, 0, "ok") EXCEPT !.tok = token,
                                                 !.n = Len(state_recording.bodies_)]
    /\ UNCHANGED <<physical_time, bodyState, written, restart_io, reload_args, reload_io,
                   pc, state_recording>>

\* BodyStatesRecording::writeToFile()
BodyStatesRecording_writeToFile ==
    \E token \in TimeToken(physical_time), i_time \in IntOf(physical_time) :
        /\ token = padValueWithZeros(i_time)
        /\ Record("recordTime", [sec |-> physical_time.sec, us |-> physical_time.us],
                  i_time, token)

\* BodyStatesRecording::writeToFile(size_t iteration_step)
BodyStatesRecording_writeToFile_step(iteration_step) ==
    \E token \in {StepToken(iteration_step)} :
        Record("recordStep", [sec |-> 0, us |-> iteration_step], iteration_step, token)

\* padValueWithZeros(value) called on its own
PadValue(value) ==
    /\ pc = "run"
    /\ last' = [Called("pad", 0, value, "ok") EXCEPT !.tok = padValueWithZeros(value)]
    /\ UNCHANGED <<physical_time, bodyState, files, origin, written,
                   restart_io, reload_args, reload_io, pc, state_recording, recorded>>

\* the program is started again after exit(1) or a crash
NewRun ==
    /\ pc = "dead"
    /\ pc' = "run"
    /\ physical_time' = TimeZero
    /\ bodyState' = InitialState
    /\ last' = NoOp
    /\ UNCHANGED <<files, origin, written, restart_io, reload_args, reload_io,
                   state_recording, recorded>>

\* ----------------------------------------------------- specifications
\* RestartIO with every call running to completion, over every body vector
\* and the checkpoints of every step.
Next ==
    \/ SimulationStep(BoundBodies(restart_io), TimeValues)
    \/ \E step \in Steps : RestartIO_writeToFile(step)
    \/ \E step \in Steps : RestartIO_readRestartTime(step)
    \/ \E step \in Steps : RestartIO_readFromFile(step)
    \/ NewRun

Spec == Init /\ [][Next]_vars

\* RestartIO with crashes inside writeToFile, over every body vector, on the
\* checkpoints of one step.
CrashSteps == {1}

NextCrash ==
    \/ SimulationStep(BoundBodies(restart_io), TimeValues)
    \/ \E step \in CrashSteps : RestartIO_writeToFile(step)
    \/ \E step \in CrashSteps : RestartIO_writeToFile_crash(step)
    \/ \E step \in CrashSteps : RestartIO_readRestartTime(step)
    \/ \E step \in CrashSteps : RestartIO_readFromFile(step)
    \/ NewRun

SpecCrash == Init /\ [][NextCrash]_vars

\* The readers of both classes: a RestartIO over the bodies A and B whose
\* writes may crash, a ReloadParticleIO over the same bodies and one over the
\* first body alone, on the checkpoints of one step.
InitRead ==
    /\ Start
    /\ state_recording = BodyStatesRecordingBody(1)
    /\ restart_io = RestartIO(<<1, 2>>)
    /\ reload_args = <<[form |-> "vector", bodies |-> <<1, 2>>, name |-> ""],
                       [form |-> "body", bodies |-> <<1>>, name |-> ""]>>
    /\ reload_io = [j \in Reloaders |-> Construct(reload_args[j])]

NextRead ==
    \/ SimulationStep(BoundBodies(restart_io), TimeValues)
    \/ \E step \in CrashSteps : RestartIO_writeToFile(step)
    \/ \E step \in CrashSteps : RestartIO_writeToFile_crash(step)
    \/ \E step \in CrashSteps : RestartIO_readRestartTime(step)
    \/ \E step \in CrashSteps : RestartIO_readFromFile(step)
    \/ \E j \in Reloaders, step \in CrashSteps : ReloadParticleIO_writeToFile(j, step)
    \/ \E j \in Reloaders, step \in CrashSteps : ReloadParticleIO_readFromFile(j, step)
    \/ NewRun

SpecRead == InitRead /\ [][NextRead]_vars

\* Two ReloadParticleIO instances built by any of the constructors, called
\* with any step.
InitReload ==
    /\ Start
    /\ state_recording = BodyStatesRecordingBody(1)
    /\ restart_io = RestartIO(<<1>>)
    /\ reload_args \in [Reloaders -> VectorArgs \cup NamedArgs \cup BodyArgs]
    /\ reload_io = [j \in Reloaders |-> Construct(reload_args[j])]

NextReload ==
    \/ SimulationStep(UNION {BoundBodies(reload_io[j]) : j \in Reloaders}, {})
    \/ \E j \in Reloaders, step \in Steps : ReloadParticleIO_writeToFile(j, step)
    \/ \E j \in Reloaders, step \in Steps : ReloadParticleIO_readFromFile(j, step)
    \/ NewRun

SpecReload == InitReload /\ [][NextReload]_vars

\* The time-to-token conversion over the sample times.
NextTime ==
    \/ SimulationStep({}, TimeSamples)
    \/ \E t \in TimeSamples : BaseIO_convertPhysicalTimeToString(t)

SpecTime == Init /\ [][NextTime]_vars

\* One BodyStatesRecording instance over every body vector, called in both
\* forms while the clock advances through the sample times and the bodies
\* stay as they are.
InitRecord ==
    /\ Start
    /\ restart_io = RestartIO(<<1>>)
    /\ reload_args = [j \in Reloaders |-> [form |-> "body", bodies |-> <<1>>, name |-> ""]]
    /\ reload_io = [j \in Reloaders |-> Construct(reload_args[j])]
    /\ state_recording \in {BodyStatesRecording(b) : b \in BodyLists}

NextRecord ==
    \/ SimulationStep({}, TimeSamples)
    \/ BodyStatesRecording_writeToFile
    \/ \E step \in RecordingSteps : BodyStatesRecording_writeToFile_step(step)

SpecRecord == InitRecord /\ [][NextRecord]_vars

\* The same instance while the bodies change and the clock takes few values.
NextHistory ==
    \/ SimulationStep(BoundBodies(state_recording), TimeValues)
    \/ BodyStatesRecording_writeToFile
    \/ \E step \in RecordingSteps : BodyStatesRecording_writeToFile_step(step)

SpecHistory == InitRecord /\ [][NextHistory]_vars

\* The writers and readers that build their token from a step, on steps of
\* fewer and of more digits than the field width, and the padding on its own.
PadSteps == {7, 1000}
PadIndices == {7, 42, 999, 1000}

InitPad ==
    /\ physical_time = TimeZero
    /\ bodyState = InitialState
    /\ files = << >>
    /\ origin = << >>
    /\ written = [k \in PadSteps |-> "none"]
    /\ pc = "run"
    /\ last = NoOp
    /\ recorded = << >>
    /\ restart_io \in {RestartIO(b) : b \in BodyLists}
    /\ reload_args = [j \in Reloaders |-> [form |-> "body", bodies |-> <<1>>, name |-> ""]]
    /\ reload_io = [j \in Reloaders |-> Construct(reload_args[j])]
    /\ state_recording = BodyStatesRecordingBody(1)

NextPad ==
    \/ SimulationStep({}, TimeValues)
    \/ \E i \in PadIndices : PadValue(i)
    \/ \E step \in PadSteps : RestartIO_writeToFile(step)
    \/ \E step \in PadSteps : RestartIO_readRestartTime(step)
    \/ \E step \in PadSteps : RestartIO_readFromFile(step)
    \/ \E step \in PadSteps : BodyStatesRecording_writeToFile_step(step)
    \/ NewRun

SpecPad == InitPad /\ [][NextPad]_vars

\* Writers of the three kinds side by side: a RestartIO and a
\* BodyStatesRecording over one body vector, any, and two ReloadParticleIO
\* built by any of the constructors, each writing.
InitWriters ==
    /\ Start
    /\ restart_io \in {RestartIO(b) : b \in BodyLists}
    /\ reload_args \in [Reloaders -> VectorArgs \cup NamedArgs \cup BodyArgs]
    /\ reload_io = [j \in Reloaders |-> Construct(reload_args[j])]
    /\ state_recording = BodyStatesRecording(restart_io.bodies_)

NextWriters ==
    \/ \E step \in CrashSteps : RestartIO_writeToFile(step)
    \/ \E j \in Reloaders, step \in CrashSteps : ReloadParticleIO_writeToFile(j, step)
    \/ BodyStatesRecording_writeToFile

SpecWriters == InitWriters /\ [][NextWriters]_vars

\* The RestartIO over the bodies A and B writing the checkpoints of two
\* steps among the files of a ReloadParticleIO and of a BodyStatesRecording.
NextFrame ==
    \/ SimulationStep(BoundBodies(restart_io), TimeValues)
    \/ \E step \in Steps : RestartIO_writeToFile(step)
    \/ \E step \in CrashSteps : ReloadParticleIO_writeToFile(1, step)
    \/ BodyStatesRecording_writeToFile

SpecFrame == InitRead /\ [][NextFrame]_vars

\* ------------------------------------------------------------- claims
\* what the claims read off a state
WriteReturned(k) ==
    last.op = "writeToFile" /\ last.io = 0 /\ last.out = "ok" /\ last.step = k

\* the names of the bodies of an I/O object are pairwise different
DistinctNames(io) ==
    \A i, j \in DOMAIN io.bodies_ :
        i # j => getName(io.bodies_[i]) # getName(io.bodies_[j])

\* the restart files as the specification names them
ExpectedOverall(k) == <<"./restart", "/", "Restart_time_">> \o padValueWithZeros(k) \o <<".dat">>
ExpectedBody(b, k) == <<"./restart", "/", getName(b), "_rst_">> \o padValueWithZeros(k) \o <<".xml">>
IsOverall(p) == p[1] = "./restart" /\ p[3] = "Restart_time_" /\ p[Len(p)] = ".dat"
IsBody(p) == p[1] = "./restart" /\ p[4] = "_rst_" /\ p[Len(p)] = ".xml"
TokenOf(p) == IF IsOverall(p) THEN SubSeq(p, 4, Len(p) - 1) ELSE SubSeq(p, 5, Len(p) - 1)
OverallFilesOf(k) == {p \in DOMAIN files : IsOverall(p) /\ TokenOf(p) = padValueWithZeros(k)}
BodyFilesOf(k) == {p \in DOMAIN files : IsBody(p) /\ TokenOf(p) = padValueWithZeros(k)}

\* reading step k back gives the current time to 9 fractional digits and,
\* from any state of the bodies, the current state of every bound body
RoundTrip(k) ==
    /\ \A r \in readRestartTimeResult(files, restart_io, k) :
          r.out = "ok" /\ FixedPrecision9(r.ret) = FixedPrecision9(physical_time)
    /\ \A bs \in [Bodies -> BodyStates] :
          LET r == readFromFileResult(files, restart_io, k, bs, 1)
          IN  /\ r.out = "ok"
              /\ \A b \in BoundBodies(restart_io) : r.state[b] = bodyState[b]

\* C1 as stated: after writeToFile(k) returns, for every list of bodies,
\* readRestartTime(k) gives the time of the write to 9 fractional digits and
\* readFromFile(k) restores every body to the state it had at the write.
C1_RoundTripAnyBodies == \A k \in Steps : WriteReturned(k) => RoundTrip(k)

\* C1 as amended: the same, for every list of bodies with pairwise different
\* names.
C1_RoundTrip == \A k \in Steps : WriteReturned(k) /\ DistinctNames(restart_io) => RoundTrip(k)

\* a write of two differently named bodies in different states at a time
\* with sub-nanosecond digits, over an older checkpoint of the same step and
\* beside a checkpoint of another step
C1_Witness ==
    \E k \in Steps :
        /\ WriteReturned(k) /\ DistinctNames(restart_io)
        /\ Len(restart_io.bodies_) = 2
        /\ bodyState[1] # bodyState[2]
        /\ physical_time # ParseReal(FixedPrecision9(physical_time))
        /\ last.pre # <<>>
        /\ \E j \in Steps \ {k} : OverallFilesOf(j) # {}

\* the files of token k are one time file and one file per bound body, each
\* holding the current state
CheckpointSet(k) ==
    /\ Cardinality(OverallFilesOf(k)) = 1
    /\ Cardinality(BodyFilesOf(k)) = Len(restart_io.bodies_)
    /\ exists(files, ExpectedOverall(k))
    /\ files[ExpectedOverall(k)] = <<FixedPrecision9(physical_time)>>
    /\ \A i \in DOMAIN restart_io.bodies_ :
          LET b == restart_io.bodies_[i]
          IN  /\ exists(files, ExpectedBody(b, k))
              /\ files[ExpectedBody(b, k)] = << <<bodyState[b]>> >>

\* C2 as stated: after writeToFile(k) returns for a writer bound to N bodies,
\* exactly one time file and exactly N body files exist for token k, the time
\* file holding the current time and the i-th body file the i-th body's state,
\* for every body list.
C2_CheckpointSetAnyBodies == \A k \in Steps : WriteReturned(k) => CheckpointSet(k)

\* C2 as amended: the same, for every body list with pairwise different names.
C2_CheckpointSet ==
    \A k \in Steps : WriteReturned(k) /\ DistinctNames(restart_io) => CheckpointSet(k)

\* a write of step 1 for two differently named bodies over an older
\* checkpoint of step 1 holding another time
C2_Witness ==
    /\ WriteReturned(1) /\ DistinctNames(restart_io)
    /\ Len(restart_io.bodies_) = 2
    /\ last.pre # <<>> /\ last.pre # <<FixedPrecision9(physical_time)>>
    /\ bodyState[2] # 0

\* both reads of step k succeed on the files as they stand
BothSucceed(k) ==
    /\ \A r \in readRestartTimeResult(files, restart_io, k) : r.out = "ok"
    /\ readFromFileResult(files, restart_io, k, bodyState, 1).out = "ok"

\* the time read is text a call wrote, and the files of token k all carry
\* the mark of one call
OneCall(k) ==
    /\ files[OverallPath(restart_io, k)] # <<>>
    /\ \A p, q \in TokenPaths(restart_io, k) : origin[p] = origin[q]

\* C3 as stated: in any history of writeToFile calls with crashes at any
\* point inside a call, whenever readRestartTime(k) and readFromFile(k) both
\* succeed, the time and all body states they return were written by one and
\* the same writeToFile(k) call.
C3_OneCallAfterCrash == \A k \in CrashSteps : BothSucceed(k) => OneCall(k)

\* C3 as amended: in any such history, when the most recent writeToFile(k)
\* call ran to completion, both reads succeed and the time and all body
\* states they return were written by that call.
C3_OneCallAfterCompleteWrite ==
    \A k \in CrashSteps :
        written[k] = "done" =>
            /\ BothSucceed(k)
            /\ OneCall(k)
            /\ \A p \in TokenPaths(restart_io, k) : origin[p] = 0

\* both reads of a checkpoint of two bodies succeeded after a complete write
\* that replaced older files of the step
C3_Witness ==
    /\ written[1] = "done"
    /\ last.op = "readFromFile" /\ last.step = 1 /\ last.out = "ok" /\ last.n = 2
    /\ bodyState[1] = 1
    /\ files[OverallPath(restart_io, 1)] # <<FixedPrecision9(TimeZero)>>

\* the file of the i-th body of the I/O object of the last read
ReadPath(i) ==
    IF last.op = "readFromFile" THEN BodyPath(restart_io, i, last.step)
    ELSE ReloadPath(reload_io[last.io], i, last.step)

\* the positions of the bodies whose file the last read did not find
MissingBodies ==
    LET io == IF last.op = "readFromFile" THEN restart_io ELSE reload_io[last.io]
    IN  {i \in DOMAIN io.bodies_ : ~exists(files, ReadPath(i))}

\* C4: RestartIO::readFromFile(k) and ReloadParticleIO::readFromFile end in
\* the fatal outcome when the file of some body does not exist, and the
\* deserialization of that body is never invoked.
C4_MissingBodyFileFatal ==
    last.op \in {"readFromFile", "reloadRead"} /\ MissingBodies # {} =>
        /\ last.out = "fatal"
        /\ pc = "dead"
        /\ \A i \in MissingBodies : i > last.n

\* readFromFile on a partial checkpoint: the first body's file is there, the
\* second body's is not
C4_Witness ==
    /\ last.op = "readFromFile" /\ last.out = "fatal" /\ last.n = 1
    /\ MissingBodies = {2}

\* C5: readRestartTime(k) returns a value only when the overall time file of
\* token k exists; when it does not exist the call ends in the fatal outcome
\* and returns no time.
C5_ReadRestartTimeFatal ==
    last.op = "readRestartTime" =>
        /\ last.out = "ok" => exists(files, ExpectedOverall(last.step))
        /\ ~exists(files, ExpectedOverall(last.step)) =>
              last.out = "fatal" /\ last.ret = NoTime /\ pc = "dead"

\* readRestartTime ended fatally although body files of the token exist
C5_Witness ==
    /\ last.op = "readRestartTime" /\ last.out = "fatal"
    /\ BodyFilesOf(last.step) # {}

\* the last call was a complete writeToFile(k) over a time file of k that an
\* earlier call had written at another physical time
Rewritten(k) ==
    /\ WriteReturned(k)
    /\ last.pre # <<>>
    /\ last.pre # <<TimeLine(physical_time)>>

\* C6: after two writeToFile(k) calls at the same step k with different
\* physical times t1 then t2, exactly one overall time file exists for k and
\* its content is t2 only: the old file is replaced, not appended to.
C6_Overwrite ==
    \A k \in Steps :
        Rewritten(k) =>
            /\ OverallFilesOf(k) = {ExpectedOverall(k)}
            /\ files[ExpectedOverall(k)] = <<FixedPrecision9(physical_time)>>

\* a write of step 0 at a later time than the one its time file held
C6_Witness ==
    /\ Rewritten(0)
    /\ TimeLess(ParseReal(last.pre[1]), physical_time)

\* C7: a writeToFile(k) call that directly follows a complete writeToFile(k)
\* call, with the physical time and the body states unchanged in between,
\* leaves every file of the filesystem as the first call left it.
C7_Idempotent ==
    [][last'.op = "writeToFile" /\ last'.out = "ok" /\ last'.twice => files' = files]_vars

\* the second of two successive writes of step 1 for two bodies, beside a
\* checkpoint of step 0
C7_Witness ==
    /\ WriteReturned(1) /\ last.twice
    /\ Len(restart_io.bodies_) = 2
    /\ OverallFilesOf(0) # {}
    /\ physical_time # TimeZero

\* the files of the reload folder named after the i-th body of an instance
ReloadFilesOf(io, i) ==
    {p \in DOMAIN files : p[1] = "./reload" /\ p[3] = io.file_names_[i][3]}

\* one reload file per bound body, at the path fixed at construction,
\* holding the body's current state; reads do the same for every step
Unindexed(io) ==
    /\ \A i \in DOMAIN io.bodies_ :
          /\ ReloadFilesOf(io, i) = {io.file_names_[i]}
          /\ files[io.file_names_[i]] = << <<bodyState[io.bodies_[i]]>> >>
    /\ Cardinality(UNION {ReloadFilesOf(io, i) : i \in DOMAIN io.bodies_}) = Len(io.bodies_)
    /\ \A s1, s2 \in Steps, bs \in [Bodies -> BodyStates] :
          reloadFromFileResult(files, io, s1, bs, 1) = reloadFromFileResult(files, io, s2, bs, 1)

\* C8 as stated: after any sequence of ReloadParticleIO::writeToFile(s) calls
\* with arbitrary steps s, exactly one reload file exists per bound body, at
\* the path fixed at construction, holding that body's state as of the last
\* call; readFromFile(s) has the same effect for every s.
C8_UnindexedAnyBodies == last.op = "reloadWrite" => Unindexed(reload_io[last.io])

\* C8 as amended: the same, for an instance whose bodies have pairwise
\* different names.
C8_Unindexed ==
    last.op = "reloadWrite" /\ DistinctNames(reload_io[last.io]) =>
        Unindexed(reload_io[last.io])

\* a write with step 1 by an instance over two differently named bodies in
\* different states
C8_Witness ==
    /\ last.op = "reloadWrite" /\ last.step = 1
    /\ Len(reload_io[last.io].bodies_) = 2
    /\ DistinctNames(reload_io[last.io])
    /\ bodyState[1] # bodyState[2]

\* the name a single-body ReloadParticleIO was constructed under
NameOf(a) == IF a.form = "named" THEN a.name ELSE getName(a.bodies[1])
NamedFile(a) == <<"./reload", "/", NameOf(a), "_rld.xml">>
SingleBody(j) == reload_args[j].form # "vector"

\* C9: a ReloadParticleIO constructed for a body under an override name X
\* writes the body's layout to <reload folder>/X_rld.xml and to no other
\* file; a ReloadParticleIO constructed for any body under the same name then
\* reads that file successfully and its body ends up with the written
\* layout; without an override the name is the body's own.
C9_CrossNameReload ==
    [][/\ (last'.op = "reloadWrite" /\ SingleBody(last'.io)) =>
            LET a == reload_args[last'.io]
            IN  /\ exists(files', NamedFile(a))
                /\ files'[NamedFile(a)] = << <<bodyState[a.bodies[1]]>> >>
                /\ \A q \in (DOMAIN files \cup DOMAIN files') \ {NamedFile(a)} :
                      q \in DOMAIN files /\ q \in DOMAIN files' /\ files'[q] = files[q]
                /\ \A j \in Reloaders :
                      SingleBody(j) /\ NameOf(reload_args[j]) = NameOf(a) =>
                          \A s \in Steps :
                              LET r == reloadFromFileResult(files', reload_io[j], s, bodyState, 1)
                              IN  /\ r.out = "ok"
                                  /\ r.state[reload_args[j].bodies[1]] = bodyState[a.bodies[1]]
       /\ (/\ last.op = "reloadWrite" /\ SingleBody(last.io)
           /\ last'.op = "reloadRead" /\ SingleBody(last'.io)
           /\ NameOf(reload_args[last'.io]) = NameOf(reload_args[last.io])) =>
               /\ last'.out = "ok"
               /\ bodyState'[reload_args[last'.io].bodies[1]] =
                      bodyState[reload_args[last.io].bodies[1]]
      ]_vars

\* an instance constructed under the name X, which is the name of no body,
\* has read into its body the layout another body was written with under X
C9_Witness ==
    /\ last.op = "reloadRead" /\ last.out = "ok"
    /\ \E w \in Reloaders \ {last.io} :
          /\ reload_args[w].form = "named" /\ reload_args[w].name = "X"
          /\ reload_args[last.io].form = "named" /\ reload_args[last.io].name = "X"
          /\ reload_args[w].bodies[1] # reload_args[last.io].bodies[1]
          /\ bodyState[reload_args[last.io].bodies[1]] = 1
          /\ files = (<<"./reload", "/", "X", "_rld.xml">> :> << <<1>> >>)

\* C10: for every physical time t passed to convertPhysicalTimeToString, the
\* token returned is pad(floor(t * 1000000)): it is determined by the
\* argument t alone, whatever the global clock is at the call.
C10_TokenFromArgument ==
    last.op = "convert" /\ FitsInt(last.arg) =>
        last.tok = padValueWithZeros(last.arg.sec * 1000000 + last.arg.us)

\* the recording calls were made with non-decreasing physical time and
\* non-decreasing iteration step
IndexLeq(a, b) == a.sec < b.sec \/ (a.sec = b.sec /\ a.us <= b.us)
NonDecreasingCalls ==
    \A i, j \in DOMAIN recorded :
        i < j /\ recorded[i].kind = recorded[j].kind =>
            IndexLeq(recorded[i].index, recorded[j].index)

\* C11: within one BodyStatesRecording instance, over any sequence of
\* writeToFile() and writeToFile(iterationStep) calls with non-decreasing
\* physical time and iteration step, two calls produce the same token only if
\* they record the same index, and tokens never decrease; mixed sequences and
\* times whose microsecond index exceeds a 32-bit int included.
C11_TokenIdentifiesSnapshot ==
    NonDecreasingCalls =>
        \A i, j \in DOMAIN recorded :
            i < j =>
                /\ recorded[i].tok = recorded[j].tok =>
                       recorded[i].index = recorded[j].index
                /\ recorded[i].val <= recorded[j].val

\* the padding as the specification words it: the decimal digits of i behind
\* as many '0' as the width W leaves room for
RECURSIVE Digits(_)
Digits(i) == IF i < 10 THEN 1 ELSE 1 + Digits(i \div 10)
RECURSIVE PowerOfTen(_)
PowerOfTen(w) == IF w = 0 THEN 1 ELSE 10 * PowerOfTen(w - 1)
IsPadOf(tok, i, W) ==
    /\ Len(tok) = IF Digits(i) > W THEN Digits(i) ELSE W
    /\ SubSeq(tok, Len(tok) - Digits(i) + 1, Len(tok)) = Decimal(i)
    /\ \A n \in 1..(Len(tok) - Digits(i)) : tok[n] = "0"

\* C12: pad(i) is the decimal representation of i left-padded with '0' to at
\* least W characters, the full representation when i has more than W digits,
\* and injective below 10^W; the recording, the restart write and the restart
\* reads all derive their token from the step through it, so a step written
\* is found by a read of the same step.
C12_Padding ==
    /\ last.op = "pad" =>
          /\ Len(last.tok) >= PadWidth
          /\ IsPadOf(last.tok, last.step, PadWidth)
          /\ \A j \in PadIndices :
                j # last.step /\ j < PowerOfTen(PadWidth) /\ last.step < PowerOfTen(PadWidth)
                    => padValueWithZeros(j) # last.tok
    /\ \A k \in PadSteps :
          WriteReturned(k) =>
              /\ \E p \in DOMAIN files :
                    /\ IsOverall(p) /\ IsPadOf(TokenOf(p), k, PadWidth)
                    /\ files[p] = <<FixedPrecision9(physical_time)>>
              /\ \A i \in DOMAIN restart_io.bodies_ :
                    \E p \in DOMAIN files :
                        /\ IsBody(p) /\ IsPadOf(TokenOf(p), k, PadWidth)
                        /\ p[3] = getName(restart_io.bodies_[i])
              /\ BothSucceed(k)
    /\ last.op = "recordStep" =>
          \E p \in DOMAIN files :
              /\ p[1] = "./output"
              /\ IsPadOf(SubSeq(p, 5, Len(p) - 1), recorded[Len(recorded)].index.us, PadWidth)

\* a checkpoint of a step of more digits than the width, written for two
\* bodies beside a checkpoint of a step of fewer digits
C12_Witness ==
    /\ WriteReturned(1000)
    /\ Len(restart_io.bodies_) = 2
    /\ \E p \in DOMAIN files : IsBody(p) /\ IsPadOf(TokenOf(p), 7, PadWidth)

\* the writer instances of a state (-1: the RestartIO, 0: the
\* BodyStatesRecording, j: the j-th ReloadParticleIO) and the paths each can
\* write
Writers == {-1, 0} \cup Reloaders
KindOf(x) == IF x \in Reloaders THEN "reload" ELSE IF x = 0 THEN "recording" ELSE "restart"
WritePaths(x) ==
    CASE x = -1 ->
           UNION {TokenPaths(restart_io, k) : k \in Steps}
      [] x = 0 ->
           {RecordPath(state_recording, i, tok) :
               i \in DOMAIN state_recording.bodies_,
               tok \in {StepToken(k) : k \in RecordingSteps}
                       \cup UNION {TimeToken(t) : t \in TimeValues}}
      [] OTHER ->
           {ReloadPath(reload_io[x], i, k) :
               i \in DOMAIN reload_io[x].bodies_, k \in Steps}

\* no file there is can have been written by both of two writers
Apart(x, y) ==
    \A p \in DOMAIN files \cap WritePaths(x) : p \notin WritePaths(y)

\* C13 as stated: for any RestartIO, ReloadParticleIO and BodyStatesRecording
\* instances over any bodies, two ReloadParticleIO with an override name or
\* bound to the same body or to bodies of equal names included, no file is
\* written by two distinct instances: a path one has written is none the
\* other can write.
C13_DisjointAnyInstances == \A x, y \in Writers : x # y => Apart(x, y)

\* C13 as amended: the same for two instances of different kinds, and for two
\* ReloadParticleIO instances none of whose file names (body names or
\* override names) is one of the other's.
C13_DisjointWriters ==
    \A x, y \in Writers :
        (/\ x # y
         /\ KindOf(x) = KindOf(y) =>
                \A i \in DOMAIN reload_io[x].file_names_, j \in DOMAIN reload_io[y].file_names_ :
                    reload_io[x].file_names_[i] # reload_io[y].file_names_[j])
            => Apart(x, y)

\* all three kinds have written: a restart checkpoint, a recording and the
\* reload files of two instances under different names for one body
C13_Witness ==
    /\ written[1] = "done"
    /\ recorded # << >>
    /\ reload_args[1].bodies = <<1>> /\ reload_args[2].bodies = <<1>>
    /\ reload_args[1].form = "body" /\ reload_args[2].form = "named"
    /\ reload_args[2].name = "X"
    /\ exists(files, reload_io[1].file_names_[1])
    /\ exists(files, reload_io[2].file_names_[1])

\* the recording files of one call: for each bound body the file of its
\* name and of the token of the index the call records
OwnToken(call) == padValueWithZeros(call.index.sec * 1000000 + call.index.us)
SnapshotOf(b, call) == <<"./output", "/", getName(b), "_">> \o OwnToken(call) \o <<".vtp">>
SnapshotsOf(call) == {SnapshotOf(b, call) : b \in BoundBodies(state_recording)}

\* C14: a BodyStatesRecording writeToFile() or writeToFile(iterationStep)
\* call creates or overwrites only the files of its own token for its bound
\* bodies and deletes or modifies no other pre-existing file, so the
\* snapshots of every body at every token recorded so far are all present.
C14_HistoryAccumulates ==
    [][last'.op \in {"recordTime", "recordStep"} =>
          LET call == recorded'[Len(recorded')]
          IN  /\ \A p \in DOMAIN files \ SnapshotsOf(call) :
                    p \in DOMAIN files' /\ files'[p] = files[p]
              /\ DOMAIN files' \ DOMAIN files \subseteq SnapshotsOf(call)
              /\ \A b \in BoundBodies(state_recording) :
                    /\ exists(files', SnapshotOf(b, call))
                    /\ DistinctNames(state_recording) =>
                          files'[SnapshotOf(b, call)] = << <<bodyState[b]>> >>
              /\ \A n \in DOMAIN recorded' :
                    SnapshotsOf(recorded'[n]) \subseteq DOMAIN files'
      ]_vars

\* three recordings of two bodies in both forms at pairwise different
\* tokens, the bodies having changed in between
C14_Witness ==
    /\ Len(recorded) = 3
    /\ Len(state_recording.bodies_) = 2
    /\ \A i, j \in DOMAIN recorded : i # j => recorded[i].tok # recorded[j].tok
    /\ \E i, j \in DOMAIN recorded : recorded[i].kind # recorded[j].kind
    /\ \E p, q \in DOMAIN files : files[p] # files[q]
    /\ last.op = "recordStep"

\* the file was written by the most recent writeToFile call of its token
OfLastCall(p) == exists(files, p) /\ origin[p] = 0

\* the files of the most recent writeToFile(k) call: named by the
\* specification's scheme with the token of k, the overall file before any
\* body file and the body files in list order; after a complete call N + 1
\* files, the overall file and one per body
OrderedSet(k) ==
    /\ \A i \in DOMAIN restart_io.bodies_ :
          OfLastCall(ExpectedBody(restart_io.bodies_[i], k)) =>
              /\ OfLastCall(ExpectedOverall(k))
              /\ files[ExpectedOverall(k)] # <<>>
              /\ \A j \in 1..(i - 1) : OfLastCall(ExpectedBody(restart_io.bodies_[j], k))
    /\ \A p \in DOMAIN files :
          p[1] = "./restart" /\ origin[p] = 0 =>
              /\ TokenOf(p) = padValueWithZeros(k)
              /\ \/ p = ExpectedOverall(k)
                 \/ \E i \in DOMAIN restart_io.bodies_ : p = ExpectedBody(restart_io.bodies_[i], k)
    /\ written[k] = "done" =>
          Cardinality({p \in DOMAIN files : p[1] = "./restart" /\ origin[p] = 0})
              = Len(restart_io.bodies_) + 1

\* readFromFile(k) went through the bodies in list order, each restored from
\* the file of its own name, up to the first whose file is missing
OrderedRead ==
    last.op = "readFromFile" =>
        /\ \A i \in 1..last.n :
              /\ exists(files, ExpectedBody(restart_io.bodies_[i], last.step))
              /\ bodyState[restart_io.bodies_[i]] =
                     ReadXml(files, ExpectedBody(restart_io.bodies_[i], last.step))
        /\ last.n < Len(restart_io.bodies_) =>
              ~exists(files, ExpectedBody(restart_io.bodies_[last.n + 1], last.step))

\* C15 as stated: writeToFile(k) for bodies [B1..BN] first writes
\* Restart_time_<pad(k)>.dat and then, in list order, each Bi_rst_<pad(k)>.xml:
\* all N + 1 files carry the same token and at every intermediate point the
\* body files of the call that exist form a prefix of the list; readFromFile(k)
\* deserializes the bodies in the same order, each from the path of its name.
C15_OrderedSetAnyBodies == OrderedRead /\ \A k \in CrashSteps : OrderedSet(k)

\* C15 as amended: the same, for bodies with pairwise different names.
C15_OrderedSet ==
    DistinctNames(restart_io) => OrderedRead /\ \A k \in CrashSteps : OrderedSet(k)

\* a call for two bodies cut short after the first body's file: the second
\* body's file is still the one of an older call
C15_Witness ==
    /\ last.op = "writeToFile" /\ last.out = "crash"
    /\ Len(restart_io.bodies_) = 2
    /\ OfLastCall(ExpectedBody(1, 1))
    /\ exists(files, ExpectedBody(2, 1)) /\ origin[ExpectedBody(2, 1)] > 0

\* C16: after a writeToFile(k) interrupted at any point, the overall file
\* just opened and still empty included, every later readRestartTime(k) and
\* readFromFile(k) either returns data a writeToFile(k) call wrote or ends in
\* the fatal outcome; it never returns a value no write produced.
C16_ReadsReturnWrittenData ==
    /\ last.op = "readRestartTime" =>
          \/ last.out = "fatal"
          \/ /\ files[ExpectedOverall(last.step)] # <<>>
             /\ FixedPrecision9(last.ret) = files[ExpectedOverall(last.step)][1]
    /\ last.op = "readFromFile" =>
          \/ last.out = "fatal"
          \/ \A i \in DOMAIN restart_io.bodies_ :
                << <<bodyState[restart_io.bodies_[i]]>> >> =
                    files[ExpectedBody(restart_io.bodies_[i], last.step)]

\* the files RestartIO::writeToFile(k) may touch: the overall file and the
\* body files of token k of its own bodies
OwnFiles(k) == {ExpectedOverall(k)} \cup {ExpectedBody(b, k) : b \in BoundBodies(restart_io)}

\* C17: RestartIO::writeToFile(k) creates, deletes or modifies only the
\* overall file and the per-body files of token k of its own bodies: every
\* restart file of another token, every reload file and every recording file
\* is left as it was, and neither the physical time nor any body's state is
\* modified.
C17_RestartWriteFrame ==
    [][last'.op = "writeToFile" =>
          /\ \A p \in (DOMAIN files \cup DOMAIN files') \ OwnFiles(last'.step) :
                p \in DOMAIN files /\ p \in DOMAIN files' /\ files'[p] = files[p]
          /\ physical_time' = physical_time
          /\ bodyState' = bodyState
      ]_vars

\* a complete write of step 1 for two bodies in a filesystem holding a
\* checkpoint of step 0, reload files and a recording
C17_Witness ==
    /\ WriteReturned(1)
    /\ Len(restart_io.bodies_) = 2
    /\ exists(files, ExpectedBody(2, 0))
    /\ exists(files, reload_io[1].file_names_[2])
    /\ recorded # << >>
    /\ last.pre # << >>

\* the step is a read, and a read that repeats the read before it
IsRead(l) == l.op \in {"readRestartTime", "readFromFile", "reloadRead"}
ReadFrame == IsRead(last') => files' = files /\ physical_time' = physical_time
Repeats == IsRead(last') /\ last.op = last'.op /\ last.io = last'.io /\ last.step = last'.step
SameResult == last'.out = last.out /\ last'.ret = last.ret /\ last'.n = last.n /\ bodyState' = bodyState

\* C18 as stated: readRestartTime, RestartIO::readFromFile and
\* ReloadParticleIO::readFromFile never create, delete or modify a file,
\* whether they succeed or end fatally, and readRestartTime does not assign
\* the global physical time; a read repeated gives the same result.
C18_ReadsChangeNothing ==
    [][ReadFrame /\ (Repeats => SameResult)]_vars

\* C18, the part that holds: no read touches a file or the clock, and a
\* repeated read gives the same result unless it is readRestartTime on an
\* empty overall file.
C18_ReadsChangeNoFile ==
    [][/\ ReadFrame
       /\ (/\ Repeats
           /\ last'.op = "readRestartTime" =>
                 files[ExpectedOverall(last'.step)] # << >>)
              => SameResult
      ]_vars

\* the I/O object of a read and the file of its i-th body
ReaderOf(l) == IF l.op = "readFromFile" THEN restart_io ELSE reload_io[l.io]
FileOf(l, i) ==
    IF l.op = "readFromFile" THEN ExpectedBody(restart_io.bodies_[i], l.step)
    ELSE reload_io[l.io].file_names_[i]

\* C19: when RestartIO::readFromFile(k) or ReloadParticleIO::readFromFile
\* ends fatally because the file of the body at list position i is the first
\* missing one, exactly the bodies at the positions before i have been
\* deserialized, their state replaced by the content of their file, and no
\* body at position i or later has been touched.
C19_PrefixRestore ==
    [][last'.op \in {"readFromFile", "reloadRead"} /\ last'.out = "fatal" =>
          LET io == ReaderOf(last')
              i == last'.n + 1
          IN  /\ i \in DOMAIN io.bodies_
              /\ ~exists(files, FileOf(last', i))
              /\ \A j \in 1..(i - 1) :
                    /\ exists(files, FileOf(last', j))
                    /\ bodyState'[io.bodies_[j]] = files[FileOf(last', j)][1][1]
              /\ \A b \in Bodies :
                    (\A j \in 1..(i - 1) : io.bodies_[j] # b) => bodyState'[b] = bodyState[b]
      ]_vars

\* a reload of the bodies A and B that found the file of A, written while A
\* was in another state, and not the file of B
C19_Witness ==
    /\ last.op = "reloadRead" /\ last.out = "fatal" /\ last.n = 1
    /\ Len(reload_io[last.io].bodies_) = 2
    /\ files[reload_io[last.io].file_names_[1]] = << <<1>> >>
    /\ bodyState[1] = 1

====
